---- MODULE Spec2Model ----
(***************************************************************************)
(* State-machine model of the ComponentTracker React component             *)
(* (src/src/App.js): the form, the in-memory list, the localStorage cache, *)
(* the startup fetch and the per-submission push.                          *)
(*                                                                         *)
(* Text is a sequence of one-character strings.  A JavaScript value held   *)
(* in `components` is a tagged record (array / null / object), because     *)
(* JSON.parse of the cached text may yield any of them.  Event handlers    *)
(* run to their first await atomically and read the state committed by the *)
(* latest render, as React guarantees for discrete events.                 *)
(***************************************************************************)
EXTENDS Integers, Sequences, FiniteSets, TLC

VARIABLES
    componentName,  \* useState('')      line 4
    quantity,       \* useState('')      line 5
    components,     \* useState([])      line 6
    showList,       \* useState(false)   line 7
    isSending,      \* useState(false)   line 8
    isLoading,      \* useState(false)   line 9
    isSyncing,      \* useState(false)   line 10
    localStorage,   \* the entry under key 'components'
    pc,             \* position of the mount effect: "load", "sync", "running"
    fetchState,     \* the startup GET: "idle", "pending", "ok", "failed"
    inflight,       \* bodies of the POSTs issued and not yet settled
    now,            \* the clock read by Date.now() and new Date()
    crashed,        \* a render threw: the tree is unmounted
    accepted,       \* history: number of records appended by handleSend
    lastEvent       \* history: the handler that ran last and its outcome

vars == <<componentName, quantity, components, showList, isSending, isLoading,
          isSyncing, localStorage, pc, fetchState, inflight, now, crashed,
          accepted, lastEvent>>

\* The React state and the cache: what a handler can change of the program.
appState == <<componentName, quantity, components, showList, isSending,
              isLoading, isSyncing, localStorage>>

-----------------------------------------------------------------------------
(* Bounds *)

MaxList == 2
MaxClock == 1
TicksPerDay == 1

-----------------------------------------------------------------------------
(* Text *)

IsSpace(c) == c = " "

RECURSIVE TrimStart(_)
TrimStart(s) ==
    IF Len(s) > 0 /\ IsSpace(Head(s)) THEN TrimStart(Tail(s)) ELSE s

RECURSIVE TrimEnd(_)
TrimEnd(s) ==
    IF Len(s) > 0 /\ IsSpace(s[Len(s)])
    THEN TrimEnd(SubSeq(s, 1, Len(s) - 1))
    ELSE s

\* String.prototype.trim
Trim(s) == TrimEnd(TrimStart(s))

\* a string in a condition: '' is falsy, anything else truthy
Truthy(s) == Len(s) > 0

DigitChars == <<"0", "1", "2", "3", "4", "5", "6", "7", "8", "9">>
IsDigit(c) == \E i \in 1..10 : DigitChars[i] = c
DigitVal(c) == (CHOOSE i \in 1..10 : DigitChars[i] = c) - 1

\* the longest prefix of s made of digits
RECURSIVE DigitPrefix(_)
DigitPrefix(s) ==
    IF Len(s) > 0 /\ IsDigit(Head(s))
    THEN <<Head(s)>> \o DigitPrefix(Tail(s))
    ELSE <<>>

RECURSIVE DigitsValue(_)
DigitsValue(d) ==
    IF Len(d) = 0 THEN 0
    ELSE 10 * DigitsValue(SubSeq(d, 1, Len(d) - 1)) + DigitVal(d[Len(d)])

NaN == [nan |-> TRUE, n |-> 0]
Num(k) == [nan |-> FALSE, n |-> k]

\* parseInt(string): leading whitespace skipped, an optional sign, then the
\* longest run of decimal digits; NaN when there is no digit.
ParseInt(s) ==
    LET t == TrimStart(s)
        signed == Len(t) > 0 /\ Head(t) \in {"-", "+"}
        neg == Len(t) > 0 /\ Head(t) = "-"
        body == IF signed THEN Tail(t) ELSE t
        d == DigitPrefix(body)
    IN  IF Len(d) = 0 THEN NaN
        ELSE Num(IF neg THEN 0 - DigitsValue(d) ELSE DigitsValue(d))

\* `x || 0` on a number: NaN and 0 are falsy
OrZero(p) == IF p.nan \/ p.n = 0 THEN 0 ELSE p.n

\* a number in a template literal
RECURSIVE NatText(_)
NatText(n) ==
    IF n < 10 THEN <<DigitChars[n + 1]>>
    ELSE NatText(n \div 10) \o <<DigitChars[(n % 10) + 1]>>
NumText(n) == IF n < 0 THEN <<"-">> \o NatText(0 - n) ELSE NatText(n)

\* new Date().toLocaleDateString(): the calendar day of the clock reading
LocaleDate(t) == <<"1", "/">> \o NatText(1 + (t \div TicksPerDay)) \o <<"/", "2", "4">>

-----------------------------------------------------------------------------
(* JavaScript values and JSON text *)

\* what `components` can hold: an array, null, or a non-array object
Arr(items) == [kind |-> "array", items |-> items]
Null == [kind |-> "null", items |-> <<>>]
Obj == [kind |-> "object", items |-> <<>>]

IsArray(v) == v.kind = "array"

\* `data || []`: null is falsy, arrays and objects are truthy
OrEmpty(v) == IF v.kind = "null" THEN Arr(<<>>) ELSE v

\* JSON text is a sequence of tokens; an object literal of the list is one
\* token carrying the record it encodes.
Punct(c) == [t |-> c, v |-> <<>>]
ObjTok(r) == [t |-> "obj", v |-> <<r>>]

RECURSIVE JoinItems(_)
JoinItems(items) ==
    IF Len(items) = 0 THEN <<>>
    ELSE IF Len(items) = 1 THEN <<ObjTok(items[1])>>
    ELSE <<ObjTok(items[1]), Punct(",")>> \o JoinItems(Tail(items))

\* JSON.stringify
Stringify(v) ==
    CASE v.kind = "array" -> <<Punct("[")>> \o JoinItems(v.items) \o <<Punct("]")>>
      [] v.kind = "null" -> <<Punct("null")>>
      [] OTHER -> <<Punct("{"), Punct("}")>>

IsArrayText(txt) ==
    /\ Len(txt) >= 2
    /\ txt[1] = Punct("[")
    /\ txt[Len(txt)] = Punct("]")
    /\ LET inner == SubSeq(txt, 2, Len(txt) - 1)
       IN  \/ Len(inner) = 0
           \/ /\ Len(inner) % 2 = 1
              /\ \A i \in 1..Len(inner) :
                    IF i % 2 = 1 THEN inner[i].t = "obj" ELSE inner[i] = Punct(",")

ArrayItems(txt) ==
    LET inner == SubSeq(txt, 2, Len(txt) - 1)
    IN  [i \in 1..((Len(inner) + 1) \div 2) |-> inner[2 * i - 1].v[1]]

\* JSON.parse: the value, or a SyntaxError
SyntaxError == [ok |-> FALSE, value |-> Null]
Parsed(v) == [ok |-> TRUE, value |-> v]

JSONParse(txt) ==
    IF IsArrayText(txt) THEN Parsed(Arr(ArrayItems(txt)))
    ELSE IF txt = <<Punct("null")>> THEN Parsed(Null)
    ELSE IF txt = <<Punct("{"), Punct("}")>> THEN Parsed(Obj)
    ELSE SyntaxError

\* localStorage.getItem('components'): null when the key is absent
Absent == [present |-> FALSE, text |-> <<>>]
Stored(txt) == [present |-> TRUE, text |-> txt]

\* `if (cachedData)`: null and '' are falsy
HasCachedData(ls) == ls.present /\ Truthy(ls.text)

-----------------------------------------------------------------------------
(* Inputs *)

\* values typed into the name field
NameInputs == { <<>>, <<" ">>, <<" ", "R", "2", " ">> }

\* values of the quantity field
QuantityInputs == { <<>>, <<" ">>, <<"3">>, <<"-", "3">>, <<"a", "b", "c">> }

\* a record as the remote endpoint returns it: name, quantity, dateAdded
RemoteR1 == [name |-> <<"R", "1">>, quantity |-> 5,
             dateAdded |-> <<"1", "/", "1", "/", "2", "4">>]

\* the clock reading at which this session starts
SessionStart == 0

\* records as an earlier session cached them: their ids are clock readings
\* taken before this session started
CachedR1 == [id |-> SessionStart - 2, name |-> <<"R", "1">>, quantity |-> 5,
             dateAdded |-> <<"1", "/", "1", "/", "2", "4">>]

CachedR2 == [id |-> SessionStart - 1, name |-> <<"R", "2">>, quantity |-> 7,
             dateAdded |-> <<"1", "/", "1", "/", "2", "4">>]

\* bodies of a successful GET response after response.json()
Payloads == { Null, Arr(<<>>), Arr(<<RemoteR1>>) }

\* what the storage may hold under key 'components' when the page loads
InitialStores ==
    { Absent,
      Stored(<<>>),
      Stored(<<Punct("[")>>),
      Stored(<<Punct("["), ObjTok(CachedR1), Punct(","), Punct("]")>>),
      Stored(<<Punct("null")>>),
      Stored(<<Punct("{"), Punct("}")>>),
      Stored(Stringify(Arr(<<>>))),
      Stored(Stringify(Arr(<<CachedR1>>))),
      Stored(Stringify(Arr(<<CachedR1, CachedR2>>))) }

-----------------------------------------------------------------------------
(* Rendering *)

\* The render reads components.length for the toggle label when the list is
\* hidden, and components.length / components.map when it is shown: null
\* throws on .length, a non-array object throws on .map.
RenderThrows(c, show) ==
    \/ c.kind = "null"
    \/ show /\ c.kind = "object"

\* the record kept in lastEvent: the handler, how it ended, the file it
\* downloaded and the payload it received (when it has one)
Event(op, outcome) ==
    [op |-> op, outcome |-> outcome, file |-> <<>>, payload |-> Null]

-----------------------------------------------------------------------------
(* CSV export *)

CsvHeaders == <<"Component Name/Part No", "Quantity", "Date Added">>

\* Array.prototype.join on a sequence of texts
RECURSIVE Join(_, _)
Join(parts, sep) ==
    IF Len(parts) = 0 THEN <<>>
    ELSE IF Len(parts) = 1 THEN parts[1]
    ELSE parts[1] \o <<sep>> \o Join(Tail(parts), sep)

\* mutant: name and date are written without quotes
CsvRowUnquoted(comp) ==
    comp.name \o <<",">> \o NumText(comp.quantity) \o <<",">> \o comp.dateAdded

CsvRow(comp) ==
    <<"\"">> \o comp.name \o <<"\"", ",">> \o NumText(comp.quantity)
        \o <<",", "\"">> \o comp.dateAdded \o <<"\"">>

CsvContent(items) ==
    Join(<<Join([i \in 1..3 |-> <<CsvHeaders[i]>>], ",")>>
            \o [i \in 1..Len(items) |-> CsvRow(items[i])],
         "\n")

-----------------------------------------------------------------------------
(* The state machine *)

Init ==
    /\ componentName = <<>>
    /\ quantity = <<>>
    /\ components = Arr(<<>>)
    /\ showList = FALSE
    /\ isSending = FALSE
    /\ isLoading = FALSE
    /\ isSyncing = FALSE
    /\ localStorage \in InitialStores
    /\ pc = "load"
    /\ fetchState = "idle"
    /\ inflight = <<>>
    /\ now = SessionStart
    /\ crashed = FALSE
    /\ accepted = 0
    /\ lastEvent = Event("init", "")

RECURSIVE Reverse(_)
Reverse(q) == IF Len(q) = 0 THEN <<>> ELSE Append(Reverse(Tail(q)), Head(q))

\* mutant: the cached records are applied in reverse order
LoadedComponentsReversed(ls, current) ==
    IF HasCachedData(ls)
    THEN LET p == JSONParse(ls.text)
         IN  IF p.ok
             THEN [kind |-> p.value.kind, items |-> Reverse(p.value.items)]
             ELSE current
    ELSE current

\* the value the mount effect puts in `components` (lines 17-29)
LoadedComponents(ls, current) ==
    IF HasCachedData(ls)
    THEN LET p == JSONParse(ls.text)
         IN  IF p.ok THEN p.value ELSE current
    ELSE current

\* useEffect, first half: read the cache (lines 17-29)
LoadCache ==
    /\ pc = "load"
    /\ components' = LoadedComponents(localStorage, components)
    /\ isLoading' = FALSE
    /\ pc' = "sync"
    /\ lastEvent' = Event("loadCache",
                          IF ~HasCachedData(localStorage) THEN "absent"
                          ELSE IF JSONParse(localStorage.text).ok THEN "parsed"
                          ELSE "malformed")
    /\ UNCHANGED <<componentName, quantity, showList, isSending, isSyncing,
                   localStorage, fetchState, inflight, now, crashed, accepted>>

\* useEffect, second half: syncWithGoogleSheets() up to its await
\* (lines 32-35, 48); the effect's state updates are then rendered.
SyncStart ==
    /\ pc = "sync"
    /\ isSyncing' = TRUE
    /\ fetchState' = "pending"
    /\ pc' = "running"
    /\ crashed' = RenderThrows(components, showList)
    /\ lastEvent' = Event("syncStart", "")
    /\ UNCHANGED <<componentName, quantity, components, showList, isSending,
                   isLoading, localStorage, inflight, now, accepted>>

\* mutant: a resolved GET keeps the local records and adds the payload
FetchOkMerges(data) ==
    /\ fetchState = "pending"
    /\ fetchState' = "ok"
    /\ components' = IF IsArray(components)
                      THEN Arr(components.items \o OrEmpty(data).items)
                      ELSE OrEmpty(data)
    /\ localStorage' = Stored(Stringify(components'))
    /\ isSyncing' = FALSE
    /\ crashed' = (crashed \/ RenderThrows(components', showList))
    /\ lastEvent' = [Event("fetch", "ok") EXCEPT !.payload = data]
    /\ UNCHANGED <<componentName, quantity, showList, isSending, isLoading,
                   pc, inflight, now, accepted>>

\* mutant: the cache gets the payload as received, not `data || []`
FetchOkCachesRaw(data) ==
    /\ fetchState = "pending"
    /\ fetchState' = "ok"
    /\ components' = IF crashed THEN components ELSE OrEmpty(data)
    /\ localStorage' = Stored(Stringify(data))
    /\ isSyncing' = IF crashed THEN isSyncing ELSE FALSE
    /\ crashed' = (crashed \/ RenderThrows(components', showList))
    /\ lastEvent' = [Event("fetch", "ok") EXCEPT !.payload = data]
    /\ UNCHANGED <<componentName, quantity, showList, isSending, isLoading,
                   pc, inflight, now, accepted>>

\* the GET resolved and its body parsed (lines 36-40, 44)
FetchOk(data) ==
    /\ fetchState = "pending"
    /\ fetchState' = "ok"
    /\ components' = IF crashed THEN components ELSE OrEmpty(data)
    /\ localStorage' = Stored(Stringify(OrEmpty(data)))
    /\ isSyncing' = IF crashed THEN isSyncing ELSE FALSE
    /\ crashed' = (crashed \/ RenderThrows(components', showList))
    /\ lastEvent' = [Event("fetch", "ok") EXCEPT !.payload = data]
    /\ UNCHANGED <<componentName, quantity, showList, isSending, isLoading,
                   pc, inflight, now, accepted>>

\* mutant: a failed GET resets the list and the cache
FetchFailClears(why) ==
    /\ fetchState = "pending"
    /\ fetchState' = "failed"
    /\ components' = Arr(<<>>)
    /\ localStorage' = Stored(Stringify(Arr(<<>>)))
    /\ isSyncing' = FALSE
    /\ lastEvent' = Event("fetch", why)
    /\ UNCHANGED <<componentName, quantity, showList, isSending, isLoading,
                   pc, inflight, now, crashed, accepted>>

\* mutant: the flag is released on the success path only
FetchFailKeepsSyncing(why) ==
    /\ fetchState = "pending"
    /\ fetchState' = "failed"
    /\ lastEvent' = Event("fetch", why)
    /\ UNCHANGED <<componentName, quantity, components, showList, isSending,
                   isLoading, isSyncing, localStorage, pc, inflight, now,
                   crashed, accepted>>

\* the GET failed, or its body did not parse (lines 41-44)
FetchFail(why) ==
    /\ fetchState = "pending"
    /\ fetchState' = "failed"
    /\ isSyncing' = IF crashed THEN isSyncing ELSE FALSE
    /\ lastEvent' = Event("fetch", why)
    /\ UNCHANGED <<componentName, quantity, components, showList, isSending,
                   isLoading, localStorage, pc, inflight, now, crashed, accepted>>

\* onChange of the name field (line 134)
SetComponentName(s) ==
    /\ pc = "running" /\ ~crashed
    /\ componentName' = s
    /\ lastEvent' = Event("setComponentName", "")
    /\ UNCHANGED <<quantity, components, showList, isSending, isLoading,
                   isSyncing, localStorage, pc, fetchState, inflight, now,
                   crashed, accepted>>

\* onChange of the quantity field (line 141)
SetQuantity(s) ==
    /\ pc = "running" /\ ~crashed
    /\ quantity' = s
    /\ lastEvent' = Event("setQuantity", "")
    /\ UNCHANGED <<componentName, components, showList, isSending, isLoading,
                   isSyncing, localStorage, pc, fetchState, inflight, now,
                   crashed, accepted>>

\* onClick of the toggle button (line 159)
ToggleList ==
    /\ pc = "running" /\ ~crashed
    /\ showList' = ~showList
    /\ crashed' = RenderThrows(components, showList')
    /\ lastEvent' = Event("toggleList", "")
    /\ UNCHANGED <<componentName, quantity, components, isSending, isLoading,
                   isSyncing, localStorage, pc, fetchState, inflight, now,
                   accepted>>

\* mutant: the empty list is exported like any other
ExportToCSVNoEmptyCheck ==
    /\ pc = "running" /\ ~crashed
    /\ lastEvent' =
         IF ~IsArray(components) THEN Event("exportToCSV", "threw")
         ELSE [Event("exportToCSV", "download")
                 EXCEPT !.file = CsvContent(components.items)]
    /\ UNCHANGED <<componentName, quantity, components, showList, isSending,
                   isLoading, isSyncing, localStorage, pc, fetchState,
                   inflight, now, crashed, accepted>>

\* exportToCSV (lines 51-72)
ExportToCSV ==
    /\ pc = "running" /\ ~crashed
    /\ lastEvent' =
         IF ~IsArray(components) THEN Event("exportToCSV", "threw")
         ELSE IF Len(components.items) = 0 THEN Event("exportToCSV", "alert")
         ELSE [Event("exportToCSV", "download")
                 EXCEPT !.file = CsvContent(components.items)]
    /\ UNCHANGED <<componentName, quantity, components, showList, isSending,
                   isLoading, isSyncing, localStorage, pc, fetchState,
                   inflight, now, crashed, accepted>>

\* mutant: the guard tests the raw fields, not the trimmed ones
SendGuardNoTrim(name, qty, sending) ==
    Truthy(name) /\ Truthy(qty) /\ ~sending

\* mutant: the guard does not look at the sending flag
SendGuardIgnoresSending(name, qty, sending) ==
    Truthy(Trim(name)) /\ Truthy(Trim(qty))

\* the guard of handleSend (line 75)
SendGuard(name, qty, sending) ==
    Truthy(Trim(name)) /\ Truthy(Trim(qty)) /\ ~sending

\* newComponent (lines 78-83)
NewComponent(name, qty, t) ==
    [id |-> t, name |-> Trim(name), quantity |-> OrZero(ParseInt(qty)),
     dateAdded |-> LocaleDate(t)]

\* the body of the POST (lines 103-107)
PostBody(comp) ==
    [name |-> comp.name, quantity |-> comp.quantity, dateAdded |-> comp.dateAdded]

\* handleSend up to its await (lines 74-109); spreading a non-array
\* `components` throws after the flag and the fields were set.
HandleSend ==
    /\ pc = "running" /\ ~crashed
    /\ IF SendGuard(componentName, quantity, isSending)
       THEN /\ isSending' = TRUE
            /\ componentName' = <<>>
            /\ quantity' = <<>>
            /\ IF IsArray(components)
               THEN LET newComponent == NewComponent(componentName, quantity, now)
                        updatedComponents ==
                            Arr(Append(components.items, newComponent))
                    IN  /\ Len(components.items) < MaxList
                        /\ components' = updatedComponents
                        /\ localStorage' = Stored(Stringify(updatedComponents))
                        /\ inflight' = Append(inflight, PostBody(newComponent))
                        /\ accepted' = accepted + 1
                        /\ lastEvent' = Event("handleSend", "accepted")
               ELSE /\ lastEvent' = Event("handleSend", "threw")
                    /\ UNCHANGED <<components, localStorage, inflight, accepted>>
       ELSE /\ lastEvent' = Event("handleSend", "rejected")
            /\ UNCHANGED <<componentName, quantity, components, isSending,
                           localStorage, inflight, accepted>>
    /\ UNCHANGED <<showList, isLoading, isSyncing, pc, fetchState, now, crashed>>

\* the POST settled, either way (lines 110-114)
PushSettle(outcome) ==
    /\ Len(inflight) > 0
    /\ inflight' = Tail(inflight)
    /\ isSending' = IF crashed THEN isSending ELSE FALSE
    /\ lastEvent' = Event("push", outcome)
    /\ UNCHANGED <<componentName, quantity, components, showList, isLoading,
                   isSyncing, localStorage, pc, fetchState, now, crashed,
                   accepted>>

\* time passes
Tick ==
    /\ now < MaxClock
    /\ now' = now + 1
    /\ lastEvent' = Event("tick", "")
    /\ UNCHANGED <<componentName, quantity, components, showList, isSending,
                   isLoading, isSyncing, localStorage, pc, fetchState,
                   inflight, crashed, accepted>>

Next ==
    \/ LoadCache
    \/ SyncStart
    \/ \E data \in Payloads : FetchOk(data)
    \/ \E why \in {"network", "parse"} : FetchFail(why)
    \/ \E s \in NameInputs : SetComponentName(s)
    \/ \E s \in QuantityInputs : SetQuantity(s)
    \/ ToggleList
    \/ ExportToCSV
    \/ HandleSend
    \/ \E outcome \in {"resolved", "rejected"} : PushSettle(outcome)
    \/ Tick

Spec == Init /\ [][Next]_vars

-----------------------------------------------------------------------------
(* Claims *)

\* Every action records itself in lastEvent, so a step that is not a
\* stuttering step and ends with lastEvent.op = o is a step of handler o.
Ran(o) == lastEvent'.op = o

Blank(s) == ~Truthy(Trim(s))

Last(items) == items[Len(items)]

\* C1: a handleSend call whose name and quantity are non-blank after
\* trimming, made with no send in flight, appends exactly one record with the
\* trimmed name and the parsed quantity at the end of the list, writes that
\* list to the cache and empties both fields, with the push still pending.
C1_AcceptedSubmissionAppends ==
    [][ (Ran("handleSend") /\ ~Blank(componentName) /\ ~Blank(quantity)
            /\ ~isSending)
        => /\ IsArray(components')
           /\ Len(components'.items) = Len(components.items) + 1
           /\ SubSeq(components'.items, 1, Len(components.items)) = components.items
           /\ Last(components'.items).name = Trim(componentName)
           /\ Last(components'.items).quantity = OrZero(ParseInt(quantity))
           /\ localStorage' = Stored(Stringify(components'))
           /\ JSONParse(localStorage'.text) = Parsed(components')
           /\ componentName' = <<>>
           /\ quantity' = <<>>
           /\ inflight' = Append(inflight, PostBody(Last(components'.items)))
      ]_vars

\* C2: a handleSend call with a blank name or a blank quantity changes
\* neither the list, the cache, the fields nor the flags, and issues no POST.
C2_BlankSubmissionIsNoOp ==
    [][ (Ran("handleSend") /\ (Blank(componentName) \/ Blank(quantity)))
        => /\ UNCHANGED appState
           /\ UNCHANGED inflight
           /\ lastEvent'.outcome = "rejected"
      ]_vars

\* a whitespace-only name with a usable quantity was submitted and rejected
C2_Witness ==
    /\ lastEvent = Event("handleSend", "rejected")
    /\ componentName = <<" ">>
    /\ quantity = <<"3">>
    /\ ~isSending
    /\ inflight = <<>>

\* C3: when the startup fetch fails the list and the cache keep the values
\* they had, whatever submissions came before, and nothing crashes.
C3_FailedFetchLeavesLocalState ==
    [][ (Ran("fetch") /\ lastEvent'.outcome # "ok")
        => /\ components' = components
           /\ localStorage' = localStorage
           /\ crashed' = crashed
      ]_vars

\* the fetch failed on an unparsable body after a local add
C3_Witness ==
    /\ lastEvent = Event("fetch", "parse")
    /\ accepted = 1
    /\ IsArray(components) /\ Len(components.items) = 2
    /\ localStorage = Stored(Stringify(components))
    /\ inflight # <<>>

\* C4: when the fetch resolves after at least one local add, the list
\* becomes the payload (the empty list for a null payload), the cache decodes
\* to the same list, and no local record outside the payload survives,
\* whether its push is still pending or not.
C4_ResolvedFetchReplacesList ==
    [][ (Ran("fetch") /\ lastEvent'.outcome = "ok" /\ accepted >= 1)
        => LET payload == lastEvent'.payload
               expected == IF payload = Null THEN Arr(<<>>) ELSE payload
           IN  /\ components' = expected
               /\ JSONParse(localStorage'.text) = Parsed(expected)
               /\ \A i \in 1..Len(components.items) :
                     (\A j \in 1..Len(payload.items) :
                          payload.items[j] # components.items[i])
                     => \A k \in 1..Len(components'.items) :
                          components'.items[k] # components.items[i]
      ]_vars

\* the fetch resolved with one remote record while a local add's push was
\* still pending: the local record is gone
C4_Witness ==
    /\ lastEvent = [Event("fetch", "ok") EXCEPT !.payload = Arr(<<RemoteR1>>)]
    /\ accepted = 1
    /\ inflight # <<>>
    /\ components = Arr(<<RemoteR1>>)
    /\ localStorage = Stored(Stringify(Arr(<<RemoteR1>>)))

WellFormedList(ls) ==
    /\ HasCachedData(ls)
    /\ JSONParse(ls.text).ok
    /\ IsArray(JSONParse(ls.text).value)

\* C5: the fetch is issued only after the cache was read; with a well-formed
\* cached list and no successful fetch the list is the cached records in
\* cached order until the first accepted submission, and with no cached data
\* it is empty.
C5_CacheShownUntilFirstSubmission ==
    /\ fetchState # "idle" => pc = "running"
    /\ (pc # "load" /\ accepted = 0 /\ fetchState # "ok")
       => /\ WellFormedList(localStorage)
             => components = JSONParse(localStorage.text).value
          /\ ~localStorage.present => components = Arr(<<>>)

\* two cached records, the fetch has failed, nothing was submitted
C5_Witness ==
    /\ fetchState = "failed"
    /\ accepted = 0
    /\ localStorage = Stored(Stringify(Arr(<<CachedR1, CachedR2>>)))
    /\ components = Arr(<<CachedR1, CachedR2>>)
    /\ ~crashed

\* C6: after the cache is read the list is a sequence of records, it is
\* empty when the stored value was absent or was not a well-formed list, and
\* the interface has not crashed.
C6_LoadYieldsSequence ==
    (pc # "load" /\ accepted = 0 /\ fetchState # "ok")
    => /\ IsArray(components)
       /\ ~WellFormedList(localStorage) => components = Arr(<<>>)
       /\ ~crashed

\* C7: the record a submission creates has the parsed quantity, or 0 when
\* the text does not parse, and that quantity is never negative.
C7_QuantityNonNegative ==
    [][ (Ran("handleSend") /\ lastEvent'.outcome = "accepted")
        => LET q == Last(components'.items).quantity
           IN  /\ q = (IF ParseInt(quantity).nan THEN 0 ELSE ParseInt(quantity).n)
               /\ q >= 0
      ]_vars

\* C8: every handleSend call that passes the guard issues exactly one POST
\* with the record's name, quantity and dateAdded; a push settling changes
\* neither the list nor the cache and issues no further POST.
C8_PushNeverChangesLocalData ==
    [][ /\ (Ran("handleSend") /\ ~Blank(componentName) /\ ~Blank(quantity)
              /\ ~isSending)
           => /\ Len(inflight') = Len(inflight) + 1
              /\ IsArray(components') /\ Len(components'.items) > 0
              /\ Last(inflight') = PostBody(Last(components'.items))
        /\ Ran("push")
           => /\ components' = components
              /\ localStorage' = localStorage
              /\ inflight' = Tail(inflight)
      ]_vars

\* C9: exportToCSV changes neither the list, the cache, the fields nor the
\* flags; on an empty list it alerts and downloads nothing.
C9_ExportIsReadOnly ==
    [][ Ran("exportToCSV")
        => /\ UNCHANGED appState
           /\ UNCHANGED inflight
           /\ (IsArray(components) /\ Len(components.items) = 0)
              => lastEvent' = Event("exportToCSV", "alert")
      ]_vars

\* export was asked for with an empty list, after the fetch failed
C9_Witness ==
    /\ lastEvent = Event("exportToCSV", "alert")
    /\ components = Arr(<<>>)
    /\ fetchState = "failed"

C11_OnlySyncDropsRecords ==
    [][ (fetchState' # "ok" /\ ~Ran("loadCache"))
        => IF Ran("handleSend") /\ ~Blank(componentName) /\ ~Blank(quantity)
              /\ ~isSending
           THEN components'.items =
                   Append(components.items,
                          NewComponent(componentName, quantity, now))
           ELSE components' = components
      ]_vars

\* a record of the list that a submission of this session created
CreatedThisSession(r) == "id" \in DOMAIN r /\ r.id >= SessionStart

\* C12: no two records created by submissions of this session have the same
\* id.
C12_SessionIdsUnique ==
    \A i, j \in 1..Len(components.items) :
        (i < j /\ CreatedThisSession(components.items[i])
               /\ CreatedThisSession(components.items[j]))
        => components.items[i].id # components.items[j].id

\* startup from a cache that is absent or holds a well-formed list
InitWellFormed ==
    /\ Init
    /\ ~localStorage.present \/ WellFormedList(localStorage)

SpecWellFormed == InitWellFormed /\ [][Next]_vars

\* the list the cache decodes to, an absent cache counting as the empty list
Decoded(ls) == IF ls.present THEN JSONParse(ls.text).value ELSE Arr(<<>>)

\* C13: after startup from an absent or well-formed cache, the cache decodes
\* to the in-memory list in every state, whatever submissions and fetch
\* resolutions have happened.
C13_CacheMirrorsList ==
    pc # "load"
    => /\ ~localStorage.present \/ JSONParse(localStorage.text).ok
       /\ Decoded(localStorage) = components

\* a remote record followed by a local one, both in the list and in the cache
C13_Witness ==
    /\ fetchState = "ok"
    /\ accepted >= 1
    /\ IsArray(components) /\ Len(components.items) = 2
    /\ components.items[1] = RemoteR1
    /\ CreatedThisSession(components.items[2])
    /\ Decoded(localStorage) = components

\* C14: isSending is true exactly while a push is in flight, a settling push
\* releases it, and a valid submission made with no push in flight is
\* accepted.
C14_SendingFlagTracksPush ==
    /\ [](isSending <=> inflight # <<>>)
    /\ [][ /\ Ran("push") => ~isSending'
           /\ (Ran("handleSend") /\ ~Blank(componentName) /\ ~Blank(quantity)
                  /\ inflight = <<>>)
              => lastEvent'.outcome = "accepted"
         ]_vars

\* C15: while the component is mounted isSyncing is true exactly while the
\* startup fetch is in flight; only the start of the sync raises it, and that
\* happens once; either way of settling releases it; handleSend neither
\* changes it nor depends on it.
C15_SyncFlagRaisedOnce ==
    /\ [](~crashed => (isSyncing <=> fetchState = "pending"))
    /\ [][ /\ (isSyncing' /\ ~isSyncing)
              => (Ran("syncStart") /\ fetchState = "idle")
           /\ fetchState' = "idle" => fetchState = "idle"
           /\ (Ran("fetch") /\ ~crashed) => ~isSyncing'
           /\ Ran("handleSend")
              => /\ isSyncing' = isSyncing
                 /\ (~Blank(componentName) /\ ~Blank(quantity) /\ ~isSending
                       /\ IsArray(components))
                    => lastEvent'.outcome = "accepted"
         ]_vars

\* a submission was accepted while the fetch was pending, then the fetch
\* failed and the flag was released
C15_Witness ==
    /\ lastEvent = Event("fetch", "network")
    /\ accepted = 1
    /\ ~isSyncing
    /\ fetchState = "failed"
    /\ ~crashed

\* the pieces of a text between occurrences of sep
RECURSIVE SplitOn(_, _)
SplitOn(txt, sep) ==
    IF \A i \in 1..Len(txt) : txt[i] # sep THEN <<txt>>
    ELSE LET k == CHOOSE i \in 1..Len(txt) :
                     txt[i] = sep /\ \A j \in 1..(i - 1) : txt[j] # sep
         IN  <<SubSeq(txt, 1, k - 1)>> \o SplitOn(SubSeq(txt, k + 1, Len(txt)), sep)

\* C16: exporting a list of n > 0 records downloads one file: the header row,
\* then n rows in list order, each "<name>",<quantity>,"<dateAdded>".
C16_ExportContent ==
    [][ (Ran("exportToCSV") /\ IsArray(components) /\ Len(components.items) > 0)
        => /\ lastEvent'.outcome = "download"
           /\ LET items == components.items
                  lines == SplitOn(lastEvent'.file, "\n")
              IN  /\ Len(lines) = Len(items) + 1
                  /\ lines[1] = <<"Component Name/Part No", ",", "Quantity", ",",
                                  "Date Added">>
                  /\ \A i \in 1..Len(items) :
                        lines[i + 1] =
                            <<"\"">> \o items[i].name \o <<"\"", ",">>
                              \o NumText(items[i].quantity)
                              \o <<",", "\"">> \o items[i].dateAdded \o <<"\"">>
      ]_vars

\* the two cached records were exported
C16_Witness ==
    /\ lastEvent.op = "exportToCSV"
    /\ components = Arr(<<CachedR1, CachedR2>>)
    /\ lastEvent.file =
         << "Component Name/Part No", ",", "Quantity", ",", "Date Added", "\n",
            "\"", "R", "1", "\"", ",", "5", ",",
            "\"", "1", "/", "1", "/", "2", "4", "\"", "\n",
            "\"", "R", "2", "\"", ",", "7", ",",
            "\"", "1", "/", "1", "/", "2", "4", "\"" >>

====
